---- MODULE Spec2Model ----
(***************************************************************************)
(* A model of the Helm provider's configuration glue:                      *)
(*                                                                         *)
(*   - helm/structure_kubeconfig.go: the KubeConfig RESTClientGetter, its  *)
(*     lock-guarded, lazily built kubeconfig loader and the override       *)
(*     object toRawKubeConfigLoader fills from the provider settings;      *)
(*   - the provider file (buildMeta and its four steps, getTLSConfig,      *)
(*     getContent).                                                        *)
(*                                                                         *)
(* Three specifications share the variables:                               *)
(*   Spec        goroutines calling the four RESTClientGetter methods of   *)
(*               one KubeConfig concurrently;                              *)
(*   SpecLoader  toRawKubeConfigLoader applied to every combination of     *)
(*               settings (one sequential caller);                         *)
(*   SpecMeta    one provider configuration (buildMeta) over every         *)
(*               combination of provider settings and library outcomes.    *)
(***************************************************************************)
EXTENDS Integers, Sequences, FiniteSets, TLC

VARIABLES
    \* ---- KubeConfig (structure_kubeconfig.go) ----
    ConfigData,     \* k.ConfigData: the "kubernetes" block of settings
    Namespace,      \* k.Namespace: Nil or a namespace
    clientConfig,   \* k.clientConfig: Nil or the memoized loader
    lock,           \* k.lock: 0 when free, else the goroutine holding it
    pc,             \* per goroutine: its position in the call
    entry,          \* per goroutine: the method it called
    ret,            \* per goroutine: what ToRawKubeConfigLoader returned last
    result,         \* per goroutine: the outcome of its last finished call
    calls,          \* per goroutine: calls started
    built,          \* history: every value toRawKubeConfigLoader returned
    returned,       \* history: every value ToRawKubeConfigLoader returned
    \* ---- provider configuration (buildMeta) ----
    d,              \* the provider's ResourceData
    m,              \* the Meta under construction
    mpc,            \* buildMeta's position
    steps,          \* history: the steps attempted, with their outcome
    forwards,       \* history: the calls of portforwarder.New
    out             \* buildMeta's return value, Nil until it returns

kvars == <<ConfigData, Namespace, clientConfig, lock, pc, entry, ret, result,
           calls, built, returned>>
mvars == <<d, m, mpc, steps, forwards, out>>
vars == <<kvars, mvars>>

\* Go's nil for a pointer or interface whose non-nil values are records.
Nil == [nil |-> TRUE]

(***************************************************************************)
(* Bounds                                                                  *)
(***************************************************************************)
NumThreads == 2     \* goroutines sharing the KubeConfig
MaxCalls == 2       \* calls each goroutine makes
NumPorts == 2       \* local ports a tunnel may be given

Threads == 1..NumThreads

(***************************************************************************)
(* Settings of the kubernetes block                                        *)
(***************************************************************************)
BoolKeys == {"load_config_file", "insecure"}

\* The zero value of a setting's type: what an unset setting reads as.
ZeroValue(key) ==
    IF key \in BoolKeys THEN FALSE
    ELSE IF key = "exec" THEN <<>>
    ELSE ""

k8sGet(cd, key) == cd[key]

\* <<value, ok>>: ok when the setting is set (differs from its zero value).
k8sGetOk(cd, key) == [v |-> cd[key], ok |-> cd[key] # ZeroValue(key)]

(***************************************************************************)
(* Library functions toRawKubeConfigLoader calls                           *)
(***************************************************************************)
\* homedir.Expand: a path not starting with "~" is returned as is, "~/..."
\* is joined to the home directory, "~user/..." is an error.
HomeDir == "/home/user"
homedirExpand(path) ==
    CASE path = "~/.kube/config" -> [path |-> HomeDir \o "/.kube/config", err |-> FALSE]
      [] path = "~other/config"  -> [path |-> "", err |-> TRUE]
      [] OTHER                   -> [path |-> path, err |-> FALSE]

\* bytes.NewBufferString(s).Bytes(): the bytes of s; len is 0 exactly for "".
BytesOf(s) == s
LenBytes(b) == IF b = "" THEN 0 ELSE 1

\* How url.Parse reads a host setting.
BareHosts == {"k8s.example:6443"}
SchemeHosts == {"http://k8s.example"}
BadHosts == {"%zz"}

\* rest.DefaultServerURL(host, "", GroupVersion{}, defaultTLS): a host with
\* its own scheme is kept; a bare host:port gets https when defaultTLS, else
\* http; a host that does not parse either way is an error.
DefaultServerURL(host, defaultTLS) ==
    IF host \in SchemeHosts THEN [url |-> host, err |-> FALSE]
    ELSE IF host \in BadHosts \/ host = "" THEN [url |-> "", err |-> TRUE]
    ELSE [url |-> (IF defaultTLS THEN "https" ELSE "http") \o "://" \o host,
          err |-> FALSE]

expandStringSlice(l) == l

\* clientcmd.NewNonInteractiveDeferredLoadingClientConfig: always an object.
NewNonInteractiveDeferredLoadingClientConfig(id, loader, overrides) ==
    [id |-> id, loader |-> loader, overrides |-> overrides]

(***************************************************************************)
(* toRawKubeConfigLoader.  The overrides and the loading rules start as    *)
(* zero values (lines 75-76); each block of the function sets its fields   *)
(* from the settings, or returns nil.                                      *)
(***************************************************************************)
\* "if v, ok := k8sGetOk(d, key); ok { field = v }" on a field that is still
\* zero: the field's value afterwards.
SetIfOk(cd, key) ==
    LET g == k8sGetOk(cd, key)
    IN  IF g.ok THEN g.v ELSE ZeroValue(key)

\* lines 78-79: whether the kubeconfig file block is entered
LoadsFile(cd) ==
    /\ k8sGet(cd, "load_config_file")
    /\ k8sGetOk(cd, "config_path").ok
    /\ k8sGetOk(cd, "config_path").v # ""

\* lines 80-83: return nil when the path cannot be expanded
PathFails(cd) == LoadsFile(cd) /\ homedirExpand(cd.config_path).err

\* lines 76, 84
LoadingRules(cd) ==
    [ExplicitPath |-> IF LoadsFile(cd) THEN homedirExpand(cd.config_path).path ELSE ""]

\* The current context overridden outside the kubeconfig file block.
CurrentContextAlways(cd) == SetIfOk(cd, "config_context")

\* lines 86-93
CurrentContext(cd) ==
    IF LoadsFile(cd) THEN SetIfOk(cd, "config_context") ELSE ""

\* lines 161-165
ContextNamespace(ns) == IF ns # Nil THEN ns.name ELSE "default"

\* lines 86-103, 161-165: clientcmdapi.Context{} with its fields set
Context(cd, ns) ==
    [AuthInfo |-> IF LoadsFile(cd) THEN SetIfOk(cd, "config_context_auth_info") ELSE "",
     Cluster |-> IF LoadsFile(cd) THEN SetIfOk(cd, "config_context_cluster") ELSE "",
     Namespace |-> ContextNamespace(ns)]

\* Secure defaulting decided without looking at the client certificate.
DefaultTLSWithoutCert(cd) ==
    LET hasCA == LenBytes(BytesOf(SetIfOk(cd, "cluster_ca_certificate"))) # 0
    IN  hasCA \/ SetIfOk(cd, "insecure")

\* lines 122-124: the overrides hold what lines 108-116 set
DefaultTLS(cd) ==
    LET hasCA == LenBytes(BytesOf(SetIfOk(cd, "cluster_ca_certificate"))) # 0
        hasCert == LenBytes(BytesOf(SetIfOk(cd, "client_certificate"))) # 0
    IN  hasCA \/ hasCert \/ SetIfOk(cd, "insecure")

\* line 125
ServerURL(cd) == DefaultServerURL(cd.host, DefaultTLS(cd))

\* lines 117, 126-128: return nil when the server URL cannot be computed
HostFails(cd) == k8sGetOk(cd, "host").ok /\ ServerURL(cd).err

\* lines 108-113, 117-131
ClusterInfo(cd) ==
    [InsecureSkipTLSVerify |-> SetIfOk(cd, "insecure"),
     CertificateAuthorityData |-> BytesOf(SetIfOk(cd, "cluster_ca_certificate")),
     Server |-> IF k8sGetOk(cd, "host").ok THEN ServerURL(cd).url ELSE ""]

\* lines 145-147, 154-157: return nil when the exec block is no map
ExecFails(cd) == k8sGetOk(cd, "exec").ok /\ cd.exec[1] = Nil

\* lines 145-159
ExecConfig(cd) ==
    IF k8sGetOk(cd, "exec").ok /\ cd.exec[1] # Nil
    THEN [APIVersion |-> cd.exec[1].api_version,
          Command |-> cd.exec[1].command,
          Args |-> expandStringSlice(cd.exec[1].args),
          Env |-> cd.exec[1].env]
    ELSE Nil

\* lines 114-116, 132-159
AuthInfo(cd) ==
    [ClientCertificateData |-> BytesOf(SetIfOk(cd, "client_certificate")),
     ClientKeyData |-> BytesOf(SetIfOk(cd, "client_key")),
     Username |-> SetIfOk(cd, "username"),
     Password |-> SetIfOk(cd, "password"),
     Token |-> SetIfOk(cd, "token"),
     Exec |-> ExecConfig(cd)]

\* lines 75, 86-165: the clientcmd.ConfigOverrides handed to the constructor
Overrides(cd, ns) ==
    [CurrentContext |-> CurrentContext(cd),
     Context |-> Context(cd, ns),
     ClusterInfo |-> ClusterInfo(cd),
     AuthInfo |-> AuthInfo(cd)]

\* lines 74-177.  id names the object the constructor allocates.
toRawKubeConfigLoader(cd, ns, id) ==
    IF PathFails(cd) THEN Nil
    ELSE IF HostFails(cd) THEN Nil
    ELSE IF ExecFails(cd) THEN Nil
    ELSE LET cfg == NewNonInteractiveDeferredLoadingClientConfig(
                        id, LoadingRules(cd), Overrides(cd, ns))
         IN  IF cfg = Nil THEN Nil ELSE cfg

(***************************************************************************)
(* The RESTClientGetter methods built on the loader.  libOk is the outcome *)
(* of the loader's own ClientConfig() (the merge of the kubeconfig file    *)
(* with the overrides), which the library decides.                         *)
(***************************************************************************)
DiscoveryBurst == 100

\* A method call on a nil interface value: a run-time panic.
Panic == [kind |-> "panic", err |-> FALSE]
Failed == [kind |-> "nil", err |-> TRUE]

\* lines 30-32: k.ToRawKubeConfigLoader().ClientConfig()
ToRESTConfig(loader, libOk) ==
    IF loader = Nil THEN Panic
    ELSE IF libOk THEN [kind |-> "config", err |-> FALSE,
                        from |-> loader.id, Burst |-> 0]
    ELSE Failed

\* lines 35-47
ToDiscoveryClient(loader, libOk) ==
    LET config == ToRESTConfig(loader, libOk)
    IN  IF config.kind = "panic" THEN config
        ELSE IF config.err THEN Failed
        ELSE [kind |-> "discovery", err |-> FALSE,
              config |-> [config EXCEPT !.Burst = DiscoveryBurst]]

\* lines 50-59
ToRESTMapper(loader, libOk) ==
    LET discoveryClient == ToDiscoveryClient(loader, libOk)
    IN  IF discoveryClient.kind = "panic" THEN discoveryClient
        ELSE IF discoveryClient.err THEN Failed
        ELSE [kind |-> "mapper", err |-> FALSE, discovery |-> discoveryClient]

(***************************************************************************)
(* The goroutines of Spec.  A panic ends the process: nothing runs after.  *)
(***************************************************************************)
Entries == {"ToRawKubeConfigLoader", "ToRESTConfig", "ToDiscoveryClient", "ToRESTMapper"}

Crashed == \E t \in Threads : pc[t] = "panic"

NoResult == [kind |-> "none", err |-> FALSE]

\* A goroutine calls one of the four methods; each one starts by calling
\* ToRawKubeConfigLoader.
Call(t, e) ==
    /\ ~Crashed
    /\ pc[t] = "idle"
    /\ calls[t] < MaxCalls
    /\ calls' = [calls EXCEPT ![t] = @ + 1]
    /\ entry' = [entry EXCEPT ![t] = e]
    /\ result' = [result EXCEPT ![t] = NoResult]
    /\ pc' = [pc EXCEPT ![t] = "lock"]
    /\ UNCHANGED <<ConfigData, Namespace, clientConfig, lock, ret, built, returned, mvars>>

\* A mutex that excludes no one.
CanLockAlways(t) == TRUE

\* line 63: Lock() returns only when no goroutine holds the mutex.
CanLock(t) == lock = 0

Lock(t) ==
    /\ ~Crashed
    /\ pc[t] = "lock"
    /\ CanLock(t)
    /\ lock' = t
    /\ pc' = [pc EXCEPT ![t] = "check"]
    /\ UNCHANGED <<ConfigData, Namespace, clientConfig, entry, ret, result, calls,
                   built, returned, mvars>>

\* Construction run whatever the memoized loader is.
CheckIgnoringCache(t) ==
    /\ ~Crashed
    /\ pc[t] = "check"
    /\ pc' = [pc EXCEPT ![t] = "construct"]
    /\ UNCHANGED <<ConfigData, Namespace, clientConfig, lock, entry, ret, result,
                   calls, built, returned, mvars>>

\* line 67: the test of the memoized loader
Check(t) ==
    /\ ~Crashed
    /\ pc[t] = "check"
    /\ pc' = [pc EXCEPT ![t] = IF clientConfig = Nil THEN "construct" ELSE "return"]
    /\ UNCHANGED <<ConfigData, Namespace, clientConfig, lock, entry, ret, result,
                   calls, built, returned, mvars>>

\* line 68: k.clientConfig = k.toRawKubeConfigLoader()
Construct(t) ==
    /\ ~Crashed
    /\ pc[t] = "construct"
    /\ LET cfg == toRawKubeConfigLoader(ConfigData, Namespace, Len(built) + 1)
       IN  /\ clientConfig' = cfg
           /\ built' = Append(built, cfg)
    /\ pc' = [pc EXCEPT ![t] = "return"]
    /\ UNCHANGED <<ConfigData, Namespace, lock, entry, ret, result, calls, returned, mvars>>

\* lines 64, 71: return k.clientConfig, then the deferred Unlock.
Return(t) ==
    /\ ~Crashed
    /\ pc[t] = "return"
    /\ ret' = [ret EXCEPT ![t] = clientConfig]
    /\ returned' = returned \cup {clientConfig}
    /\ lock' = 0
    /\ IF entry[t] = "ToRawKubeConfigLoader"
       THEN /\ pc' = [pc EXCEPT ![t] = "idle"]
            /\ result' = [result EXCEPT ![t] = [kind |-> "loader", err |-> FALSE]]
       ELSE /\ pc' = [pc EXCEPT ![t] = "use"]
            /\ UNCHANGED result
    /\ UNCHANGED <<ConfigData, Namespace, clientConfig, entry, calls, built, mvars>>

\* The rest of ToRESTConfig, ToDiscoveryClient or ToRESTMapper, on the loader
\* ToRawKubeConfigLoader returned.
Use(t) ==
    /\ ~Crashed
    /\ pc[t] = "use"
    /\ \E libOk \in BOOLEAN :
         LET r == CASE entry[t] = "ToRESTConfig" -> ToRESTConfig(ret[t], libOk)
                    [] entry[t] = "ToDiscoveryClient" -> ToDiscoveryClient(ret[t], libOk)
                    [] OTHER -> ToRESTMapper(ret[t], libOk)
         IN  /\ result' = [result EXCEPT ![t] = r]
             /\ pc' = [pc EXCEPT ![t] = IF r.kind = "panic" THEN "panic" ELSE "idle"]
    /\ UNCHANGED <<ConfigData, Namespace, clientConfig, lock, entry, ret, calls,
                   built, returned, mvars>>

(***************************************************************************)
(* Settings                                                                *)
(***************************************************************************)
ExecSpec == [api_version |-> "client.authentication.k8s.io/v1beta1",
             command |-> "aws-iam-authenticator",
             args |-> <<"token">>,
             env |-> {[Name |-> "AWS_PROFILE", Value |-> "dev"]}]

\* The exec setting: unset, a block that is no map, a well-formed block.
ExecSettings == {<<>>, <<Nil>>, <<ExecSpec>>}

ZeroConfig ==
    [load_config_file |-> FALSE, config_path |-> "", config_context |-> "",
     config_context_auth_info |-> "", config_context_cluster |-> "",
     insecure |-> FALSE, cluster_ca_certificate |-> "", client_certificate |-> "",
     host |-> "", username |-> "", password |-> "", client_key |-> "",
     token |-> "", exec |-> <<>>]

AllConfigs ==
    [load_config_file : BOOLEAN,
     config_path : {"", "~/.kube/config", "~other/config"},
     config_context : {"", "ctx"},
     config_context_auth_info : {"", "user"},
     config_context_cluster : {"", "cluster"},
     insecure : BOOLEAN,
     cluster_ca_certificate : {"", "CA-PEM"},
     client_certificate : {"", "CERT-PEM"},
     host : {""} \cup BareHosts \cup SchemeHosts \cup BadHosts,
     username : {"", "admin"},
     password : {"", "hunter2"},
     client_key : {"", "KEY-PEM"},
     token : {"", "tok"},
     exec : ExecSettings]

\* The settings the goroutines of Spec share: two under which construction
\* succeeds, and one for each way it fails.
FileConfig == [ZeroConfig EXCEPT !.load_config_file = TRUE,
                                 !.config_path = "~/.kube/config"]
ConcConfigs ==
    {FileConfig,
     [FileConfig EXCEPT !.host = "k8s.example:6443", !.client_certificate = "CERT-PEM"],
     [FileConfig EXCEPT !.config_path = "~other/config"],
     [FileConfig EXCEPT !.host = "%zz"],
     [FileConfig EXCEPT !.exec = <<Nil>>]}

Namespaces == {Nil, [name |-> "tiller-ns"]}

KubeInit(configs, namespaces) ==
    /\ ConfigData \in configs
    /\ Namespace \in namespaces
    /\ clientConfig = Nil
    /\ lock = 0
    /\ pc = [t \in Threads |-> "idle"]
    /\ entry = [t \in Threads |-> "ToRawKubeConfigLoader"]
    /\ ret = [t \in Threads |-> Nil]
    /\ result = [t \in Threads |-> NoResult]
    /\ calls = [t \in Threads |-> 0]
    /\ built = <<>>
    /\ returned = {}

(***************************************************************************)
(* Provider configuration: the settings                                    *)
(***************************************************************************)
DefaultKey == "$HELM_HOME/key.pem"
DefaultCert == "$HELM_HOME/cert.pem"
DefaultCA == "$HELM_HOME/ca.pem"

\* The files of the machine, by path, and the paths whose "~" cannot be
\* expanded.
Files == [p \in {"/certs/key.pem", "/certs/cert.pem", "/certs/ca.pem"} |->
            CASE p = "/certs/key.pem" -> "KEY-A"
              [] p = "/certs/cert.pem" -> "CERT-A"
              [] OTHER -> "CA-GOOD"]
Unreadable == {"~nouser/key.pem", "~nouser/cert.pem", "~nouser/ca.pem"}

KeySettings == {DefaultKey, "", "KEY-A", "KEY-B", "/certs/key.pem", "~nouser/key.pem"}
CertSettings == {DefaultCert, "", "CERT-A", "garbage", "/certs/cert.pem", "~nouser/cert.pem"}
CASettings == {DefaultCA, "", "CA-GOOD", "garbage", "/certs/ca.pem", "~nouser/ca.pem"}

\* The "kubernetes" block: a list of at most one element (MaxItems 1).
ZeroBlock ==
    [host |-> "", username |-> "", password |-> "", insecure |-> FALSE,
     client_certificate |-> "", client_key |-> "", cluster_ca_certificate |-> "",
     config_context |-> ""]
KubernetesBlocks ==
    {<<>>} \cup
    {<<[ZeroBlock EXCEPT !.host = h, !.username = u]>> :
        h \in {"", "https://k8s.example", "%zz"}, u \in {"", "admin"}}

ResourceDatas ==
    [host : {"", "tiller.example:44134"},
     home : {"~/.helm"},
     namespace : {"kube-system", "tiller-ns"},
     debug : {FALSE},
     insecure : BOOLEAN,
     client_key : KeySettings,
     client_certificate : CertSettings,
     ca_certificate : CASettings,
     kubernetes : KubernetesBlocks]

\* d.GetOk("kubernetes.0.<key>"): the zero value and not ok without a block.
BlockGetOk(rd, key) ==
    LET v == IF rd.kubernetes = <<>> THEN ZeroBlock[key] ELSE rd.kubernetes[1][key]
    IN  [v |-> v, ok |-> v # ZeroBlock[key]]

(***************************************************************************)
(* Libraries buildMeta's steps call                                        *)
(***************************************************************************)
\* pathorcontents.Read: "" is "", a "~" that cannot be expanded is an error,
\* a path of an existing file is the file's contents, anything else is
\* itself the contents.
pathorcontentsRead(poc) ==
    IF poc \in Unreadable THEN [content |-> "", err |-> "cannot expand home dir"]
    ELSE IF poc \in DOMAIN Files THEN [content |-> Files[poc], err |-> ""]
    ELSE [content |-> poc, err |-> ""]

\* tls.X509KeyPair: the certificate and the key must parse and match.
X509KeyPair(certPEMBlock, keyPEMBlock) ==
    IF certPEMBlock = "CERT-A" /\ keyPEMBlock = "KEY-A"
    THEN [cert |-> [cert |-> certPEMBlock, key |-> keyPEMBlock], err |-> ""]
    ELSE [cert |-> Nil, err |-> "tls: failed to parse key pair"]

\* (*CertPool).AppendCertsFromPEM: whether some certificate was parsed.
AppendCertsFromPEM(pem) == pem \in {"CA-GOOD", "CERT-A"}

\* The configuration kube.GetConfig(ctx).ClientConfig() reads from the
\* kubeconfig file, when it can.
KubeFileConfig ==
    [Host |-> "https://from-kubeconfig", Username |-> "", Password |-> "",
     Insecure |-> FALSE, CAData |-> "", CertData |-> "", KeyData |-> "",
     UserAgent |-> ""]
EmptyRestConfig ==
    [Host |-> "", Username |-> "", Password |-> "", Insecure |-> FALSE,
     CAData |-> "", CertData |-> "", KeyData |-> "", UserAgent |-> ""]

kubeGetConfig(kubeOk) ==
    IF kubeOk THEN [cfg |-> KubeFileConfig, err |-> ""]
    ELSE [cfg |-> Nil, err |-> "invalid configuration"]

\* kubernetes.NewForConfig: fails on a host that is no URL.
NewForConfig(cfg) ==
    IF cfg.Host \in BadHosts
    THEN [client |-> Nil, err |-> "host must be a URL or a host:port pair"]
    ELSE [client |-> [config |-> cfg], err |-> ""]

\* fmt.Sprintf("localhost:%d", port)
LocalHost(port) == "localhost:" \o ToString(port)

UserAgent == "HashiCorp/1.0 Terraform/0.12"

(***************************************************************************)
(* getContent, getTLSConfig                                                *)
(***************************************************************************)
\* The default path taken for PEM content.
getContentKeepingDefault(rd, key, def) ==
    LET r == pathorcontentsRead(rd[key])
    IN  IF r.err # "" THEN [bytes |-> "", err |-> r.err]
        ELSE [bytes |-> BytesOf(r.content), err |-> ""]

\* lines 371-384
getContent(rd, key, def) ==
    LET filename == rd[key]
        r == pathorcontentsRead(filename)
    IN  IF r.err # "" THEN [bytes |-> "", err |-> r.err]
        ELSE IF r.content = def THEN [bytes |-> "", err |-> ""]
        ELSE [bytes |-> BytesOf(r.content), err |-> ""]

\* No TLS at all as soon as the key or the certificate is missing.
getTLSConfigEitherMissing(rd) ==
    LET key == getContent(rd, "client_key", DefaultKey)
        crt == getContent(rd, "client_certificate", DefaultCert)
        pair == X509KeyPair(crt.bytes, key.bytes)
        ca == getContent(rd, "ca_certificate", DefaultCA)
        cfg1 == [InsecureSkipVerify |-> rd.insecure, Certificates |-> <<pair.cert>>,
                 RootCAs |-> Nil]
    IN  IF key.err # "" THEN [cfg |-> Nil, err |-> key.err]
        ELSE IF crt.err # "" THEN [cfg |-> Nil, err |-> crt.err]
        ELSE IF LenBytes(key.bytes) = 0 \/ LenBytes(crt.bytes) = 0
             THEN [cfg |-> Nil, err |-> ""]
        ELSE IF pair.err # ""
             THEN [cfg |-> Nil, err |-> "could not read x509 key pair"]
        ELSE IF ca.err # "" THEN [cfg |-> Nil, err |-> ca.err]
        ELSE IF ~rd.insecure /\ LenBytes(ca.bytes) # 0
             THEN IF ~AppendCertsFromPEM(ca.bytes)
                  THEN [cfg |-> Nil, err |-> "failed to parse ca_certificate"]
                  ELSE [cfg |-> [cfg1 EXCEPT !.RootCAs = [pem |-> ca.bytes]],
                        err |-> ""]
        ELSE [cfg |-> cfg1, err |-> ""]

\* lines 330-369
getTLSConfig(rd) ==
    LET key == getContent(rd, "client_key", DefaultKey)
        crt == getContent(rd, "client_certificate", DefaultCert)
        cfg0 == [InsecureSkipVerify |-> rd.insecure, Certificates |-> <<>>,
                 RootCAs |-> Nil]
        pair == X509KeyPair(crt.bytes, key.bytes)
        cfg1 == [cfg0 EXCEPT !.Certificates = <<pair.cert>>]
        ca == getContent(rd, "ca_certificate", DefaultCA)
    IN  IF key.err # "" THEN [cfg |-> Nil, err |-> key.err]
        ELSE IF crt.err # "" THEN [cfg |-> Nil, err |-> crt.err]
        ELSE IF LenBytes(key.bytes) = 0 /\ LenBytes(crt.bytes) = 0
             THEN [cfg |-> Nil, err |-> ""]
        ELSE IF pair.err # ""
             THEN [cfg |-> Nil, err |-> "could not read x509 key pair"]
        ELSE IF ca.err # "" THEN [cfg |-> Nil, err |-> ca.err]
        ELSE IF ~cfg1.InsecureSkipVerify /\ LenBytes(ca.bytes) # 0
             THEN IF ~AppendCertsFromPEM(ca.bytes)
                  THEN [cfg |-> Nil, err |-> "failed to parse ca_certificate"]
                  ELSE [cfg |-> [cfg1 EXCEPT !.RootCAs = [pem |-> ca.bytes]],
                        err |-> ""]
        ELSE [cfg |-> cfg1, err |-> ""]

(***************************************************************************)
(* The steps of buildMeta, as functions of the Meta: <<Meta', error>>.     *)
(***************************************************************************)
ZeroMeta ==
    [Settings |-> Nil, K8sClient |-> Nil, K8sConfig |-> Nil, HelmClient |-> Nil,
     Tunnel |-> Nil, DefaultNamespace |-> ""]

\* lines 238-245
buildSettings(meta, rd) ==
    [meta EXCEPT !.Settings = [Home |-> rd.home,
                               TillerHost |-> rd.host,
                               TillerNamespace |-> rd.namespace,
                               Debug |-> rd.debug]]

\* lines 266-286: the static fields laid over the configuration
OverlayStatic(cfg, rd) ==
    LET host == BlockGetOk(rd, "host")
        username == BlockGetOk(rd, "username")
        password == BlockGetOk(rd, "password")
        insecure == BlockGetOk(rd, "insecure")
        ca == BlockGetOk(rd, "cluster_ca_certificate")
        cert == BlockGetOk(rd, "client_certificate")
        key == BlockGetOk(rd, "client_key")
    IN  [cfg EXCEPT !.Host = IF host.ok THEN host.v ELSE @,
                    !.Username = IF username.ok THEN username.v ELSE @,
                    !.Password = IF password.ok THEN password.v ELSE @,
                    !.Insecure = IF insecure.ok THEN insecure.v ELSE @,
                    !.CAData = IF ca.ok THEN BytesOf(ca.v) ELSE @,
                    !.CertData = IF cert.ok THEN BytesOf(cert.v) ELSE @,
                    !.KeyData = IF key.ok THEN BytesOf(key.v) ELSE @]

\* line 254: whether a failed kubeconfig resolution ends the step
ResolutionIsFatal(hasStatic) == hasStatic

\* lines 247-295
buildK8sClient(meta, rd, kubeOk) ==
    LET hasStatic == rd.kubernetes # <<>>
        got == kubeGetConfig(kubeOk)
        cfg0 == IF got.cfg = Nil THEN EmptyRestConfig ELSE got.cfg
        cfg == OverlayStatic([cfg0 EXCEPT !.UserAgent = UserAgent], rd)
        made == NewForConfig(cfg)
    IN  IF got.err # "" /\ ResolutionIsFatal(hasStatic)
        THEN [m |-> meta, err |-> got.err]
        ELSE [m |-> [meta EXCEPT !.K8sConfig = cfg, !.K8sClient = made.client],
              err |-> IF made.err # ""
                      THEN "failed to configure kubernetes config: " \o made.err
                      ELSE ""]

\* A tunnel opened whether or not a Tiller host is configured.
buildTunnelAlways(meta, tunnel) ==
    IF tunnel = Nil
    THEN [m |-> meta, err |-> "error creating tunnel", called |-> TRUE]
    ELSE [m |-> [meta EXCEPT !.Settings.TillerHost = LocalHost(tunnel.Local)],
          err |-> "", called |-> TRUE]

\* lines 297-310.  tunnel is what portforwarder.New returned: Nil when it
\* failed.  called tells whether portforwarder.New was called at all.
buildTunnel(meta, tunnel) ==
    IF meta.Settings.TillerHost # ""
    THEN [m |-> meta, err |-> "", called |-> FALSE]
    ELSE IF tunnel = Nil
    THEN [m |-> meta, err |-> "error creating tunnel", called |-> TRUE]
    ELSE [m |-> [meta EXCEPT !.Settings.TillerHost = LocalHost(tunnel.Local)],
          err |-> "", called |-> TRUE]

\* lines 312-328
buildHelmClient(meta, rd) ==
    LET tls == getTLSConfig(rd)
    IN  IF tls.err # "" THEN [m |-> meta, err |-> tls.err]
        ELSE [m |-> [meta EXCEPT !.HelmClient = [Host |-> meta.Settings.TillerHost,
                                                 TLS |-> tls.cfg]],
              err |-> ""]

(***************************************************************************)
(* buildMeta (lines 220-236), one action per step.  A step that fails      *)
(* makes buildMeta return (nil, err) at once.                              *)
(***************************************************************************)
Ports == 1..NumPorts

\* buildMeta going on to the next step whatever the step returned.
AfterStepIgnoringErr(name, r, lib, next) ==
    /\ m' = r.m
    /\ steps' = Append(steps, [step |-> name, err |-> r.err, lib |-> lib])
    /\ mpc' = next
    /\ out' = IF next = "returned" THEN [meta |-> r.m, err |-> ""] ELSE out

\* The transition after a step that returned r; lib is how the library call
\* of the step ended ("ok", "fail", or "-" when it made none).
AfterStep(name, r, lib, next) ==
    /\ m' = r.m
    /\ steps' = Append(steps, [step |-> name, err |-> r.err, lib |-> lib])
    /\ IF r.err # ""
       THEN /\ mpc' = "returned"
            /\ out' = [meta |-> Nil, err |-> r.err]
       ELSE /\ mpc' = next
            /\ out' = IF next = "returned" THEN [meta |-> r.m, err |-> ""] ELSE out

BuildSettings ==
    /\ mpc = "buildSettings"
    /\ AfterStep("buildSettings", [m |-> buildSettings(m, d), err |-> ""], "-",
                 "buildK8sClient")
    /\ UNCHANGED <<d, forwards, kvars>>

BuildK8sClient ==
    /\ mpc = "buildK8sClient"
    /\ \E kubeOk \in BOOLEAN :
         AfterStep("buildK8sClient", buildK8sClient(m, d, kubeOk),
                   IF kubeOk THEN "ok" ELSE "fail", "buildTunnel")
    /\ UNCHANGED <<d, forwards, kvars>>

\* portforwarder.New fails, or opens a tunnel on some local port.
BuildTunnel ==
    /\ mpc = "buildTunnel"
    /\ \E tunnel \in {Nil} \cup {[Local |-> p, Namespace |-> m.Settings.TillerNamespace] :
                                    p \in Ports} :
         LET r == buildTunnel(m, tunnel)
         IN  /\ AfterStep("buildTunnel", r,
                          IF ~r.called THEN "-" ELSE IF tunnel = Nil THEN "fail" ELSE "ok",
                          "buildHelmClient")
             /\ forwards' = IF r.called
                            THEN Append(forwards,
                                        [namespace |-> m.Settings.TillerNamespace,
                                         client |-> m.K8sClient,
                                         config |-> m.K8sConfig,
                                         tunnel |-> tunnel])
                            ELSE forwards
    /\ UNCHANGED <<d, kvars>>

BuildHelmClient ==
    /\ mpc = "buildHelmClient"
    /\ AfterStep("buildHelmClient", buildHelmClient(m, d), "-", "returned")
    /\ UNCHANGED <<d, forwards, kvars>>

MetaInit(datas) ==
    /\ d \in datas
    /\ m = ZeroMeta
    /\ mpc = "buildSettings"
    /\ steps = <<>>
    /\ forwards = <<>>
    /\ out = Nil

IdleData ==
    [host |-> "", home |-> "~/.helm", namespace |-> "kube-system", debug |-> FALSE,
     insecure |-> FALSE, client_key |-> DefaultKey, client_certificate |-> DefaultCert,
     ca_certificate |-> DefaultCA, kubernetes |-> <<>>]

(***************************************************************************)
(* Spec: goroutines sharing one KubeConfig                                 *)
(***************************************************************************)
Init == KubeInit(ConcConfigs, {Nil}) /\ MetaInit({IdleData})

Next ==
    \E t \in Threads :
        \/ \E e \in Entries : Call(t, e)
        \/ Lock(t)
        \/ Check(t)
        \/ Construct(t)
        \/ Return(t)
        \/ Use(t)

Spec == Init /\ [][Next]_vars

\* The goroutines as the Go runtime schedules them: a goroutine that can run
\* does run, and a goroutine waiting in Lock() gets the mutex when it is
\* released again and again (sync.Mutex hands a starving waiter the lock).
\* Nothing obliges a goroutine to call.
Fairness ==
    \A t \in Threads :
        /\ SF_vars(Lock(t))
        /\ WF_vars(Check(t))
        /\ WF_vars(Construct(t))
        /\ WF_vars(Return(t))
        /\ WF_vars(Use(t))

SpecFair == Spec /\ Fairness

(***************************************************************************)
(* SpecLoader: one caller, every combination of settings                   *)
(***************************************************************************)
\* ToRawKubeConfigLoader (lines 62-72) called with no other goroutine about.
Resolve ==
    /\ lock = 0
    /\ calls[1] < MaxCalls
    /\ calls' = [calls EXCEPT ![1] = @ + 1]
    /\ LET cfg == IF clientConfig = Nil
                  THEN toRawKubeConfigLoader(ConfigData, Namespace, Len(built) + 1)
                  ELSE clientConfig
       IN  /\ clientConfig' = cfg
           /\ built' = IF clientConfig = Nil THEN Append(built, cfg) ELSE built
           /\ ret' = [ret EXCEPT ![1] = cfg]
           /\ returned' = returned \cup {cfg}
    /\ result' = [result EXCEPT ![1] = [kind |-> "loader", err |-> FALSE]]
    /\ UNCHANGED <<ConfigData, Namespace, lock, pc, entry, mvars>>

InitLoader == KubeInit(AllConfigs, Namespaces) /\ MetaInit({IdleData})

NextLoader == Resolve

SpecLoader == InitLoader /\ [][NextLoader]_vars

(***************************************************************************)
(* SpecMeta: one provider configuration                                    *)
(***************************************************************************)
InitMeta == KubeInit({ZeroConfig}, {Nil}) /\ MetaInit(ResourceDatas)

NextMeta ==
    \/ BuildSettings
    \/ BuildK8sClient
    \/ BuildTunnel
    \/ BuildHelmClient

SpecMeta == InitMeta /\ [][NextMeta]_vars

(***************************************************************************)
(* Properties of the shared KubeConfig (Spec)                              *)
(***************************************************************************)
\* A goroutine that has a value from ToRawKubeConfigLoader in hand.
HasLoader(t) == calls[t] > 0 /\ pc[t] \in {"idle", "use", "panic"}

\* C1, as stated: whatever the settings and the interleaving, the loader is
\* constructed exactly once and every caller receives that one instance.
C1_ConstructedOnceAlways ==
    /\ Len(built) <= 1
    /\ returned # {} => Len(built) = 1 /\ returned = {built[1]}

\* The calls of t that are past line 68.
PastConstruct(t) == calls[t] - (IF pc[t] \in {"lock", "check", "construct"} THEN 1 ELSE 0)

RECURSIVE SumPastConstruct(_)
SumPastConstruct(T) ==
    IF T = {} THEN 0
    ELSE LET t == CHOOSE x \in T : TRUE
         IN  PastConstruct(t) + SumPastConstruct(T \ {t})

\* C1, amended: when construction succeeds, the loader is constructed exactly
\* once, whatever the interleaving of the calls, and every caller, then and
\* later, receives that same instance: no construction follows a successful
\* one, and a non-null loader handed out is the memoized one.  When
\* construction fails nothing is memoized: every call runs construction and
\* returns a null loader.
C1_ConstructedOnce ==
    /\ \A i \in DOMAIN built : built[i] # Nil => i = Len(built) /\ clientConfig = built[i]
    /\ \A v \in returned : v # Nil => v = clientConfig
    /\ (built # <<>> /\ built[1] # Nil) =>
          /\ Len(built) = 1
          /\ returned \subseteq {built[1]}
          /\ \A t \in Threads : HasLoader(t) => ret[t] = built[1]
    /\ (built # <<>> /\ built[1] = Nil) =>
          /\ clientConfig = Nil
          /\ returned \subseteq {Nil}
          /\ Len(built) = SumPastConstruct(Threads)

\* One goroutine has just constructed the loader and still holds the lock
\* while another, which called before the resolution, waits for the lock.
C1_Witness ==
    \E t1, t2 \in Threads :
        /\ t1 # t2
        /\ pc[t1] = "return" /\ Len(built) = 1 /\ built[1] # Nil
        /\ pc[t2] = "lock"
        /\ ret[t2] = Nil /\ calls[t2] = 1

\* C3: when construction fails the loader is null, and ToRESTConfig,
\* ToDiscoveryClient and ToRESTMapper then return an error: none of them
\* panics on the null loader, none returns a configuration.
C3_NullLoaderIsAnError ==
    /\ \A i \in DOMAIN built :
          (PathFails(ConfigData) \/ HostFails(ConfigData) \/ ExecFails(ConfigData))
              => built[i] = Nil
    /\ \A t \in Threads : pc[t] # "panic"
    /\ \A t \in Threads :
          (pc[t] = "idle" /\ calls[t] > 0 /\ entry[t] # "ToRawKubeConfigLoader"
              /\ ret[t] = Nil) => result[t].err

\* The lines of ToRawKubeConfigLoader run with the lock held.
InBody == {"check", "construct", "return"}

\* C11, the state part: while no construction has succeeded the cached
\* loader is null and every call that is past line 68 has run construction,
\* each under the lock; the lock is held only by a goroutine that is inside
\* the function, so every return path has released it.
C11_Inv ==
    /\ (built = <<>> \/ built[Len(built)] = Nil) =>
          /\ clientConfig = Nil
          /\ \A i \in DOMAIN built : built[i] = Nil
          /\ Len(built) = SumPastConstruct(Threads)
    /\ \A t \in Threads : pc[t] \in InBody <=> lock = t
    /\ clientConfig # Nil => clientConfig = built[Len(built)]

\* C11, the step part: a test of a null cache leads to construction, and a
\* loader once cached is never replaced nor reset to null.
C11_Step ==
    /\ clientConfig # Nil => clientConfig' = clientConfig
    /\ \A t \in Threads :
          (pc[t] = "check" /\ pc'[t] # "check" /\ clientConfig = Nil)
              => pc'[t] = "construct"
    /\ Len(built') > Len(built) => (lock # 0 /\ pc[lock] = "construct")

\* C11: only a successful resolution is memoized; after a failed
\* construction the cache stays null and every later call constructs again
\* under the lock; after a successful one the cached loader never changes.
\* The lock is released on every return path: a call waiting for the lock
\* gets it and a call holding it returns.  (A panic in another goroutine ends
\* the process and with it every call; no call is left waiting.)
C11_OnlySuccessMemoized ==
    /\ []C11_Inv
    /\ [][C11_Step]_vars
    /\ \A t \in Threads : (pc[t] = "lock") ~> (pc[t] = "check" \/ Crashed)
    /\ \A t \in Threads : (pc[t] \in InBody) ~> (pc[t] \notin InBody \/ Crashed)

\* A second call has run the failing construction again while another
\* goroutine waits for the lock, and the cache is still null.
C11_Witness ==
    \E t1, t2 \in Threads :
        /\ t1 # t2
        /\ Len(built) = 2 /\ built[1] = Nil /\ built[2] = Nil
        /\ clientConfig = Nil
        /\ pc[t1] = "return" /\ calls[t1] = 2
        /\ pc[t2] = "lock"

(***************************************************************************)
(* Properties of toRawKubeConfigLoader (SpecLoader)                        *)
(***************************************************************************)
\* The loader a call has constructed from the settings.
Constructed == built # <<>> /\ built[1] # Nil

\* TLS material in the settings that implies https.
TLSImplied ==
    \/ ConfigData.cluster_ca_certificate # ""
    \/ ConfigData.client_certificate # ""
    \/ ConfigData.insecure

\* C9: with an explicit host, the server override is computed with https
\* defaulting exactly when a cluster CA certificate or a client certificate
\* is set or insecure is true: a bare host:port becomes an https URL then
\* and an http URL otherwise, whatever the other credentials; a host that
\* names its scheme keeps it.
C9_SecureDefaulting ==
    (Constructed /\ ConfigData.host # "") =>
        LET server == built[1].overrides.ClusterInfo.Server
        IN  /\ ConfigData.host \in BareHosts =>
                /\ TLSImplied => server = "https://" \o ConfigData.host
                /\ ~TLSImplied => server = "http://" \o ConfigData.host
            /\ ConfigData.host \in SchemeHosts => server = ConfigData.host

\* A bare host with only a client certificate, resolved to https.
C9_Witness ==
    /\ Constructed
    /\ ConfigData.host = "k8s.example:6443"
    /\ ConfigData.client_certificate # ""
    /\ ConfigData.cluster_ca_certificate = ""
    /\ ~ConfigData.insecure
    /\ ConfigData.token # ""
    /\ built[1].overrides.ClusterInfo.Server = "https://k8s.example:6443"

\* The exec override a well-formed exec setting stands for.
ExecOf(e) ==
    IF e = <<>> THEN Nil
    ELSE [APIVersion |-> e[1].api_version, Command |-> e[1].command,
          Args |-> e[1].args, Env |-> e[1].env]

\* The fields copied whatever the other settings are.
StaticFieldsCopied(o) ==
    /\ o.ClusterInfo.InsecureSkipTLSVerify = ConfigData.insecure
    /\ o.ClusterInfo.CertificateAuthorityData = ConfigData.cluster_ca_certificate
    /\ o.AuthInfo.ClientCertificateData = ConfigData.client_certificate
    /\ o.AuthInfo.ClientKeyData = ConfigData.client_key
    /\ o.AuthInfo.Username = ConfigData.username
    /\ o.AuthInfo.Password = ConfigData.password
    /\ o.AuthInfo.Token = ConfigData.token
    /\ o.AuthInfo.Exec = ExecOf(ConfigData.exec)

\* C10, as stated: every override field holds its setting when the setting
\* is set and is left unset (zero) when it is absent, for every combination
\* of settings, the context fields and the namespace included.
C10_EveryFieldCopied ==
    Constructed =>
        LET o == built[1].overrides
        IN  /\ StaticFieldsCopied(o)
            /\ o.CurrentContext = ConfigData.config_context
            /\ o.Context.AuthInfo = ConfigData.config_context_auth_info
            /\ o.Context.Cluster = ConfigData.config_context_cluster
            /\ o.Context.Namespace = IF Namespace = Nil THEN "" ELSE Namespace.name

\* Whether the settings name a kubeconfig file to load.
FileLoaded == ConfigData.load_config_file /\ ConfigData.config_path # ""

\* C10, amended: the insecure flag, CA data, client certificate and key
\* data, username, password, token and exec spec hold their setting when it
\* is set and stay unset when it is absent, for every combination of
\* settings.  The current context, context auth-info and context cluster do
\* so only when load_config_file is true and config_path is not empty;
\* otherwise they stay unset even when set.  The namespace override is the
\* supplied namespace, and "default" when none is supplied.
C10_FieldsCopied ==
    Constructed =>
        LET o == built[1].overrides
        IN  /\ StaticFieldsCopied(o)
            /\ o.CurrentContext = IF FileLoaded THEN ConfigData.config_context ELSE ""
            /\ o.Context.AuthInfo =
                  IF FileLoaded THEN ConfigData.config_context_auth_info ELSE ""
            /\ o.Context.Cluster =
                  IF FileLoaded THEN ConfigData.config_context_cluster ELSE ""
            /\ o.Context.Namespace =
                  IF Namespace = Nil THEN "default" ELSE Namespace.name

\* A loader built with a context set but no kubeconfig file loaded, no
\* namespace supplied, and static credentials set.
C10_Witness ==
    /\ Constructed
    /\ ~ConfigData.load_config_file
    /\ ConfigData.config_context # ""
    /\ Namespace = Nil
    /\ ConfigData.username # "" /\ ConfigData.exec # <<>>
    /\ built[1].overrides.CurrentContext = ""
    /\ built[1].overrides.Context.Namespace = "default"
    /\ built[1].overrides.AuthInfo.Username = ConfigData.username

(***************************************************************************)
(* Properties of the provider configuration (SpecMeta)                     *)
(***************************************************************************)
StepOrder == <<"buildSettings", "buildK8sClient", "buildTunnel", "buildHelmClient">>

\* The step has been attempted, and what it returned.
Attempted(i) == Len(steps) >= i
Succeeded == mpc = "returned" /\ out.err = ""

HasStaticBlock == d.kubernetes # <<>>

\* C2: buildK8sClient fails on a failed kubeconfig resolution exactly when no
\* static kubernetes block is supplied; with a block it goes on and builds
\* the configuration from the static fields.
C2_ResolutionFailureFatalIffNoStatic ==
    Attempted(2) =>
        /\ steps[2].err = kubeGetConfig(FALSE).err
              <=> (steps[2].lib = "fail" /\ ~HasStaticBlock)
        /\ (steps[2].lib = "fail" /\ HasStaticBlock) =>
              /\ m.K8sConfig # Nil
              /\ m.K8sConfig.Host = d.kubernetes[1].host

\* C4: a configuration that succeeds without a configured Tiller host leaves
\* the open tunnel in Meta.Tunnel; the field is null only when a host was
\* configured.
C4_TunnelHeld ==
    Succeeded =>
        /\ d.host = "" => out.meta.Tunnel # Nil
        /\ out.meta.Tunnel = Nil => d.host # ""

\* The settings buildSettings leaves.
SettingsOf(host) ==
    [Home |-> d.home, TillerHost |-> host, TillerNamespace |-> d.namespace,
     Debug |-> d.debug]

\* C5: with a Tiller host configured the tunnel step opens no port-forward
\* and leaves the settings as they were; otherwise it calls the port
\* forwarder exactly once, in the configured Tiller namespace, and the
\* effective host becomes localhost:<the tunnel's local port>.  The Helm
\* client built afterwards is bound to the effective host.
C5_TunnelStep ==
    /\ ~Attempted(3) => forwards = <<>>
    /\ (Attempted(3) /\ d.host # "") =>
          /\ forwards = <<>>
          /\ steps[3].err = ""
          /\ m.Settings = SettingsOf(d.host)
    /\ (Attempted(3) /\ d.host = "") =>
          /\ Len(forwards) = 1
          /\ forwards[1].namespace = d.namespace
          /\ forwards[1].tunnel = Nil =>
                steps[3].err # "" /\ m.Settings = SettingsOf("")
          /\ forwards[1].tunnel # Nil =>
                /\ steps[3].err = ""
                /\ m.Settings =
                     SettingsOf("localhost:" \o ToString(forwards[1].tunnel.Local))
    /\ m.HelmClient # Nil =>
          /\ m.HelmClient.Host = m.Settings.TillerHost
          /\ d.host # "" => m.HelmClient.Host = d.host

\* A Helm client bound to the local end of the one tunnel opened.
C5_Witness ==
    /\ Succeeded
    /\ d.host = "" /\ d.namespace = "tiller-ns"
    /\ Len(forwards) = 1 /\ forwards[1].tunnel.Local = NumPorts
    /\ m.HelmClient.Host = "localhost:" \o ToString(NumPorts)

\* C6: the steps run in the order settings, Kubernetes client, tunnel, Helm
\* client, each at most once; a step that fails is the last one attempted
\* and buildMeta has then returned the error and no Meta; a Meta is returned
\* only after all four succeeded.
C6_StepsInOrderNoRetry ==
    /\ Len(steps) <= Len(StepOrder)
    /\ \A i \in DOMAIN steps : steps[i].step = StepOrder[i]
    /\ \A i \in DOMAIN steps :
          steps[i].err # "" =>
              /\ i = Len(steps)
              /\ mpc = "returned"
              /\ out = [meta |-> Nil, err |-> steps[i].err]
    /\ (Attempted(2) /\ steps[2].err # "") => forwards = <<>> /\ m.HelmClient = Nil
    /\ (Attempted(3) /\ steps[3].err # "") => Len(forwards) = 1 /\ m.HelmClient = Nil
    /\ mpc = "returned" =>
          /\ out # Nil
          /\ out.err = "" => Len(steps) = Len(StepOrder) /\ out.meta = m
    /\ mpc # "returned" => out = Nil /\ mpc = StepOrder[Len(steps) + 1]

\* The tunnel could not be established: buildMeta has returned that error.
C6_Witness ==
    /\ Len(steps) = 3
    /\ steps[3].lib = "fail"
    /\ mpc = "returned"
    /\ out.meta = Nil /\ out.err = "error creating tunnel"

\* The PEM content a setting stands for.
ContentOf(setting) == IF setting \in DOMAIN Files THEN Files[setting] ELSE setting

ValidPairSet ==
    /\ d.client_certificate \in {"CERT-A", "/certs/cert.pem"}
    /\ d.client_key \in {"KEY-A", "/certs/key.pem"}

\* C7: with a valid client certificate and key and no CA bundle (absent, or
\* the default path), the TLS configuration is built without error, holds
\* exactly that key pair and has no root CA pool, for either value of
\* insecure.
C7_CertAndKeyWithoutCA ==
    (Attempted(4) /\ ValidPairSet /\ d.ca_certificate \in {DefaultCA, ""}) =>
        /\ steps[4].err = ""
        /\ m.HelmClient # Nil
        /\ m.HelmClient.TLS =
              [InsecureSkipVerify |-> d.insecure,
               Certificates |-> <<[cert |-> ContentOf(d.client_certificate),
                                   key |-> ContentOf(d.client_key)]>>,
               RootCAs |-> Nil]

\* A verifying client built from a certificate file and an inline key.
C7_Witness ==
    /\ Attempted(4)
    /\ d.client_certificate = "/certs/cert.pem" /\ d.client_key = "KEY-A"
    /\ d.ca_certificate = DefaultCA
    /\ ~d.insecure
    /\ m.HelmClient # Nil
    /\ m.HelmClient.TLS.RootCAs = Nil
    /\ Len(m.HelmClient.TLS.Certificates) = 1

\* Some key or certificate is supplied: neither the default path nor empty.
MaterialPresent ==
    \/ d.client_key \notin {DefaultKey, ""}
    \/ d.client_certificate \notin {DefaultCert, ""}

\* The supplied key and certificate do not make a key pair.
PairMalformed ==
    ~(ContentOf(d.client_certificate) = "CERT-A" /\ ContentOf(d.client_key) = "KEY-A")

\* A CA bundle is supplied and holds no certificate.
CAUnparsable == d.ca_certificate = "garbage"

HelmClientFailed == steps[4].err # "" /\ m.HelmClient = Nil /\ out.meta = Nil

\* C8, as stated: with TLS material present, buildHelmClient fails when the
\* key pair is malformed or the CA bundle cannot be parsed, for every value
\* of insecure.
C8_BadMaterialAlwaysFails ==
    (Attempted(4) /\ MaterialPresent /\ (PairMalformed \/ CAUnparsable)) =>
        HelmClientFailed

\* C8, amended: with TLS material present, buildHelmClient fails when the
\* key pair is malformed (only one of the two present included), for every
\* value of insecure, and when a supplied non-default CA bundle cannot be
\* parsed and insecure is false.  With insecure true the CA bundle is not
\* parsed: an unparsable one beside a valid key pair gives a client with no
\* root CA pool.
C8_BadMaterialFails ==
    /\ (Attempted(4) /\ MaterialPresent /\ (PairMalformed \/ (CAUnparsable /\ ~d.insecure)))
          => HelmClientFailed
    /\ (Attempted(4) /\ ValidPairSet /\ CAUnparsable /\ d.insecure) =>
          /\ steps[4].err = ""
          /\ m.HelmClient # Nil
          /\ m.HelmClient.TLS.RootCAs = Nil
          /\ m.HelmClient.TLS.InsecureSkipVerify

\* Only a key was supplied, and the Helm client was not built.
C8_Witness ==
    /\ Attempted(4)
    /\ d.client_key = "KEY-A" /\ d.client_certificate = DefaultCert
    /\ d.insecure
    /\ steps[4].err = "could not read x509 key pair"
    /\ m.HelmClient = Nil

====
